---- MODULE Spec2Model ----
(***************************************************************************)
(* Credential lifecycle and request layer of the offiaccount client:       *)
(* GetAccessToken, NoticeRefreshAccessToken, refreshAccessTokenFromWXServer,*)
(* responseFilter, applyAccessToken, Client.HTTPGet and Client.HTTPPost.   *)
(*                                                                         *)
(* Every goroutine of the model makes one call.  An action is one step of  *)
(* a call between two points where it touches shared state (the cache, the *)
(* refresh lock) or waits for the network.                                 *)
(***************************************************************************)
EXTENDS Integers, Sequences, FiniteSets, TLC

\* Goroutines of the process.
NGoroutines == 3

Procs == 1..NGoroutines

\* Goroutines that make calls of any kind concurrently, one call each.
NClients == 2

Clients == 1..NClients

\* Calls the single goroutine of the sequential specification makes in a row.
MaxCalls == 2

\* Tokens the issuer hands out in one run; each is a new one.
MaxIssued == 3

\* ctx.Config.Appid of the OffiAccount instances in the process: two identities.
Appids == {"wx1", "wx2"}

\* access_token values in the order the issuer hands them out; "" is the empty string.
TokenNames == <<"T1", "T2", "T3", "T4", "T5", "T6">>

Tokens == { TokenNames[i] : i \in 1..MaxIssued }

\* expires_in values the issuer can report (a missing field decodes to 0).
ExpiresInValues == {-10, 0, 1, 7200}

\* Request paths as the per-endpoint wrappers pass them, cut into pieces:
\* without and with a query string.
Paths == { <<"/cgi-bin/menu/get">>, <<"/cgi-bin/user/info", "?", "openid=o1">> }

\* Payloads handed to HTTPPost (the bytes behind the io.Reader).
Payloads == { <<"{}">> }

-----------------------------------------------------------------------------
(* Values *)

\* []byte(nil)
NilBytes == [nil |-> TRUE]

\* error(nil)
NilErr == [kind |-> "nil"]

\* errors.New / fmt.Errorf values: what built it and the bytes its text carries.
Error(kind, text) == [kind |-> kind, text |-> text]

\* The sentinel of errors.New("access token invalid"); Go compares it by identity.
NeedRefreshAccessTokenError == [kind |-> "NeedRefreshAccessTokenError"]

WXInvalidErrorCode == {40001, 40014}

StatusOK == 200

\* A response body: a JSON object with the fields the decoders look at, or
\* bytes that are no JSON of the expected shape.
Malformed == [wellformed |-> FALSE]

\* http.Response values of the platform API, and transport failures of http.Get / http.Post.
PlatformBodies ==
    { [wellformed |-> TRUE, data |-> "ok"],
      [wellformed |-> TRUE, errcode |-> 0, errmsg |-> "ok"],
      [wellformed |-> TRUE, errcode |-> 40001, errmsg |-> "invalid credential"],
      [wellformed |-> TRUE, errcode |-> 40014, errmsg |-> "invalid access_token"],
      [wellformed |-> TRUE, errcode |-> 99999, errmsg |-> "x"],
      [wellformed |-> TRUE, errcode |-> -1, errmsg |-> "system busy"],
      Malformed }

Response(status, readable, body) ==
    [StatusCode |-> status, readable |-> readable, Body |-> body]

PlatformResponses ==
    { Response(StatusOK, TRUE, b) : b \in PlatformBodies }
      \cup { Response(500, TRUE, Malformed),
             Response(500, TRUE, [wellformed |-> TRUE, errcode |-> 40001, errmsg |-> "invalid credential"]),
             Response(StatusOK, FALSE, Malformed) }

\* The error of http.Get / http.Post when no response arrives (refused, reset, timeout).
TransportFailure == [neterr |-> TRUE]

IsTransportFailure(outcome) == "neterr" \in DOMAIN outcome

IsResponse(outcome) == "StatusCode" \in DOMAIN outcome

PlatformOutcomes == PlatformResponses \cup {TransportFailure}

\* One platform outcome of each kind the request layer tells apart.
PlatformOutcomeKinds ==
    { Response(StatusOK, TRUE, [wellformed |-> TRUE, errcode |-> 0, errmsg |-> "ok"]),
      Response(StatusOK, TRUE, [wellformed |-> TRUE, errcode |-> 40001, errmsg |-> "invalid credential"]),
      Response(StatusOK, TRUE, [wellformed |-> TRUE, errcode |-> 99999, errmsg |-> "x"]),
      TransportFailure }

\* Answers of the token issuer that carry the token t: with a lifetime, and
\* without the expires_in field.
IssuerGrants(t) ==
    { Response(StatusOK, TRUE, [wellformed |-> TRUE, access_token |-> t, expires_in |-> n]) :
          n \in ExpiresInValues }
      \cup { Response(StatusOK, TRUE, [wellformed |-> TRUE, access_token |-> t]) }

\* Answers of the token issuer without a token: its own error envelope, an
\* empty token, no JSON, a failed read, a bad status, no answer at all.
IssuerRefusals ==
    { Response(StatusOK, TRUE, [wellformed |-> TRUE, errcode |-> 40013, errmsg |-> "invalid appid"]),
      Response(StatusOK, TRUE, [wellformed |-> TRUE, access_token |-> "", expires_in |-> 7200]),
      Response(StatusOK, TRUE, Malformed),
      Response(StatusOK, FALSE, Malformed),
      Response(500, TRUE, Malformed),
      TransportFailure }

-----------------------------------------------------------------------------
(* Pure functions *)

\* ioutil.ReadAll(response.Body): the bytes, or what was read and an error.
Truncated == [truncated |-> TRUE]

ReadAll(response) ==
    IF response.readable THEN [bytes |-> response.Body, err |-> NilErr]
    ELSE [bytes |-> Truncated, err |-> Error("ReadAll", NilBytes)]

\* json.Unmarshal into struct{Errcode int64; Errmsg string}: a missing field keeps 0.
UnmarshalErrorResponse(bytes) ==
    IF ~bytes.wellformed THEN [ok |-> FALSE, Errcode |-> 0]
    ELSE [ok |-> TRUE,
          Errcode |-> IF "errcode" \in DOMAIN bytes THEN bytes.errcode ELSE 0]

\* responseFilter that reads the envelope before it looks at the status.
responseFilterStatusLast(response) ==
    LET read == ReadAll(response) IN
    IF read.err # NilErr
    THEN [resp |-> read.bytes, err |-> read.err]
    ELSE LET errorResponse == UnmarshalErrorResponse(read.bytes) IN
         IF ~errorResponse.ok
         THEN [resp |-> read.bytes, err |-> Error("Unmarshal", NilBytes)]
         ELSE IF errorResponse.Errcode \in WXInvalidErrorCode
         THEN [resp |-> read.bytes, err |-> NeedRefreshAccessTokenError]
         ELSE IF errorResponse.Errcode # 0
         THEN [resp |-> read.bytes, err |-> Error("errors.New", read.bytes)]
         ELSE IF response.StatusCode # StatusOK
         THEN [resp |-> NilBytes, err |-> Error("Status", NilBytes)]
         ELSE [resp |-> read.bytes, err |-> NilErr]

responseFilter(response) ==
    IF response.StatusCode # StatusOK
    THEN [resp |-> NilBytes, err |-> Error("Status", NilBytes)]
    ELSE LET read == ReadAll(response) IN
         IF read.err # NilErr
         THEN [resp |-> read.bytes, err |-> read.err]
         ELSE LET errorResponse == UnmarshalErrorResponse(read.bytes) IN
              IF ~errorResponse.ok
              THEN [resp |-> read.bytes, err |-> Error("Unmarshal", NilBytes)]
              ELSE IF errorResponse.Errcode \in WXInvalidErrorCode
              THEN [resp |-> read.bytes, err |-> NeedRefreshAccessTokenError]
              ELSE IF errorResponse.Errcode # 0
              THEN [resp |-> read.bytes, err |-> Error("errors.New", read.bytes)]
              ELSE [resp |-> read.bytes, err |-> NilErr]

\* json.Unmarshal into struct{AccessToken string; ExpiresIn int; ...}.
UnmarshalTokenResult(bytes) ==
    IF ~bytes.wellformed THEN [ok |-> FALSE, AccessToken |-> "", ExpiresIn |-> 0]
    ELSE [ok |-> TRUE,
          AccessToken |-> IF "access_token" \in DOMAIN bytes THEN bytes.access_token ELSE "",
          ExpiresIn |-> IF "expires_in" \in DOMAIN bytes THEN bytes.expires_in ELSE 0]

\* refreshAccessTokenFromWXServer without the test for an empty access_token.
refreshAccessTokenFromWXServerUnchecked(outcome) ==
    IF IsTransportFailure(outcome)
    THEN [accessToken |-> "", expiresIn |-> 0, err |-> Error("http.Get", NilBytes)]
    ELSE IF outcome.StatusCode # StatusOK
    THEN [accessToken |-> "", expiresIn |-> 0, err |-> Error("GET RETURN", NilBytes)]
    ELSE LET read == ReadAll(outcome) IN
         IF read.err # NilErr
         THEN [accessToken |-> "", expiresIn |-> 0, err |-> read.err]
         ELSE LET result == UnmarshalTokenResult(read.bytes) IN
              IF ~result.ok
              THEN [accessToken |-> "", expiresIn |-> 0,
                    err |-> Error("Unmarshal error", read.bytes)]
              ELSE [accessToken |-> result.AccessToken,
                    expiresIn |-> result.ExpiresIn, err |-> NilErr]

\* refreshAccessTokenFromWXServer, as a function of what http.Get produced.
refreshAccessTokenFromWXServer(outcome) ==
    IF IsTransportFailure(outcome)
    THEN [accessToken |-> "", expiresIn |-> 0, err |-> Error("http.Get", NilBytes)]
    ELSE IF outcome.StatusCode # StatusOK
    THEN [accessToken |-> "", expiresIn |-> 0, err |-> Error("GET RETURN", NilBytes)]
    ELSE LET read == ReadAll(outcome) IN
         IF read.err # NilErr
         THEN [accessToken |-> "", expiresIn |-> 0, err |-> read.err]
         ELSE LET result == UnmarshalTokenResult(read.bytes) IN
              IF ~result.ok
              THEN [accessToken |-> "", expiresIn |-> 0,
                    err |-> Error("Unmarshal error", read.bytes)]
              ELSE IF result.AccessToken = ""
              THEN [accessToken |-> "", expiresIn |-> 0,
                    err |-> Error("fmt.Errorf", read.bytes)]
              ELSE [accessToken |-> result.AccessToken,
                    expiresIn |-> result.ExpiresIn, err |-> NilErr]

\* The lifetime saved as the issuer reported it.
ShrinkExpiresInForgotten(expiresIn) == expiresIn

\* int(0.9 * float64(expiresIn)): the conversion truncates toward zero.
ShrinkExpiresIn(expiresIn) ==
    IF expiresIn >= 0 THEN (9 * expiresIn) \div 10
    ELSE -((9 * (-expiresIn)) \div 10)

\* strings.Contains(oldUrl, "?")
ContainsQuestionMark(url) == \E i \in 1..Len(url) : url[i] = "?"

\* The string applyAccessToken builds once it has the token.
AppendAccessToken(oldUrl, accessToken) ==
    IF ContainsQuestionMark(oldUrl)
    THEN oldUrl \o <<"&", "access_token=", accessToken>>
    ELSE oldUrl \o <<"?", "access_token=", accessToken>>

\* The values of the access_token parameters of a URL, in order.
RECURSIVE AccessTokenParams(_)
AccessTokenParams(url) ==
    IF Len(url) < 2 THEN <<>>
    ELSE IF url[1] = "access_token="
    THEN <<url[2]>> \o AccessTokenParams(SubSeq(url, 3, Len(url)))
    ELSE AccessTokenParams(Tail(url))

-----------------------------------------------------------------------------
(* What the world outside the process may do in a run *)

Grant(t, n) ==
    Response(StatusOK, TRUE, [wellformed |-> TRUE, access_token |-> t, expires_in |-> n])

\* Every outcome of the data sets above.
EnvAll ==
    [ paths      |-> Paths,
      grants     |-> [t \in Tokens |-> IssuerGrants(t)],
      refusals   |-> IssuerRefusals,
      platform   |-> PlatformOutcomes,
      cacheFails |-> TRUE ]

\* One outcome of each kind the code tells apart.
EnvKinds ==
    [ paths      |-> { <<"/cgi-bin/menu/get">> },
      grants     |-> [t \in Tokens |-> { Grant(t, 7200) }],
      refusals   |-> { TransportFailure },
      platform   |-> PlatformOutcomeKinds,
      cacheFails |-> TRUE ]

\* The issuer answers with a token and the cache keeps what it is given.
EnvHealthy ==
    [ paths      |-> { <<"/cgi-bin/menu/get">> },
      grants     |-> [t \in Tokens |-> { Grant(t, 7200) }],
      refusals   |-> {},
      platform   |-> PlatformOutcomeKinds,
      cacheFails |-> FALSE ]

-----------------------------------------------------------------------------
(* State *)

VARIABLES
    cache,      \* ctx.AccessToken.Cache: appid -> the entry it holds
    lock,       \* refreshAccessTokenLock: 0 when free, else the goroutine holding it
    issued,     \* how many tokens the issuer has handed out
    ncalls,     \* how many calls have been started
    pc,         \* where each goroutine is
    call,       \* the call each goroutine makes: the function and its arguments
    attempt,    \* HTTPGet/HTTPPost: 1 before the credential-invalid branch, 2 inside it
    uri,        \* HTTPGet/HTTPPost: the variable uri
    payload,    \* HTTPPost: what is left to read of the payload reader
    resp,       \* HTTPGet/HTTPPost: the named result resp
    err,        \* HTTPGet/HTTPPost: the named result err (the function's, not the branch's)
    ret,        \* what the call returned
    trace       \* per goroutine, what its call has done so far

vars == <<cache, lock, issued, ncalls, pc, call, attempt, uri, payload, resp, err, ret, trace>>

\* A cache without a value for the key.
NoEntry == [value |-> "", ttl |-> 0]

NoCall == [op |-> "none"]

NoRet == [returned |-> FALSE]

\* The latest invocation of GetAccessToken in a call: the values its Fetches
\* gave, how often it invoked the issuer, and its results once it returned.
NoGat == [fetched |-> <<>>, issuer |-> 0, returned |-> FALSE, accessToken |-> "", err |-> NilErr]

\* The latest refreshAccessTokenFromWXServer of a call and the Save after it.
NoRefresh == [by |-> "none"]

\* The results of GetRefreshAccessTokenHandler in a call.
NoForced == [returned |-> FALSE]

\* The latest Cache.Save of a call: the token handed to it and the error it
\* returned, which the code drops.
NoSave == [made |-> FALSE, accessToken |-> "", err |-> NilErr]

\* What is remembered of the goroutine's call before this one: whether the
\* latest Cache.Save it made returned an error, for which identity and which
\* token.
NoEarlier == [saveFailed |-> FALSE, appid |-> "", accessToken |-> ""]

NoTrace ==
    [ earlier   |-> NoEarlier,
      issuer    |-> 0,         \* invocations of refreshAccessTokenFromWXServer
      notices   |-> 0,         \* invocations of GetRefreshAccessTokenHandler
      gat       |-> NoGat,
      refresh   |-> NoRefresh,
      save      |-> NoSave,
      forced    |-> NoForced,
      reqs      |-> <<>>,      \* the platform requests sent: uri and body
      responses |-> <<>>,      \* the outcomes of those requests
      peers     |-> {} ]       \* who was in a forced refresh for the same token when this
                               \* call met the invalid credential

\* Cache.Fetch(key): the value held ("" on a miss), or "" and an error when
\* the store cannot be reached.
FetchOutcomes(E, c, key) ==
    { [value |-> c[key].value, err |-> NilErr] }
      \cup IF E.cacheFails THEN { [value |-> "", err |-> Error("Cache.Fetch", NilBytes)] }
           ELSE {}

\* Cache.Save(key, value, d) when it succeeds.
Save(c, key, value, d) == [c EXCEPT ![key] = [value |-> value, ttl |-> d]]

\* What a Cache.Save that returns an error may leave in the store. The cache
\* contract has no words for it, so every outcome is possible: the store as
\* it was, the write applied all the same, or the entry lost.
AfterFailedSave(c, key, value, d) ==
    { c, Save(c, key, value, d), [c EXCEPT ![key] = NoEntry] }

\* Cache.Save: what the cache holds afterwards, and the error returned.
SaveOutcomes(E, c, key, value, d) ==
    { [cache |-> Save(c, key, value, d), err |-> NilErr] }
      \cup IF E.cacheFails
           THEN { [cache |-> after, err |-> Error("Cache.Save", NilBytes)] :
                     after \in AfterFailedSave(c, key, value, d) }
           ELSE {}

\* What http.Get of the token endpoint can produce now.
IssuerOutcomes(E) ==
    E.refusals \cup (IF issued < MaxIssued THEN E.grants[TokenNames[issued + 1]] ELSE {})

HasToken(outcome) ==
    /\ IsResponse(outcome)
    /\ "access_token" \in DOMAIN outcome.Body
    /\ outcome.Body.access_token # ""

Init ==
    /\ cache = [a \in Appids |-> NoEntry]
    /\ lock = 0
    /\ issued = 0
    /\ ncalls = 0
    /\ pc = [p \in Procs |-> "idle"]
    /\ call = [p \in Procs |-> NoCall]
    /\ attempt = [p \in Procs |-> 0]
    /\ uri = [p \in Procs |-> <<>>]
    /\ payload = [p \in Procs |-> <<>>]
    /\ resp = [p \in Procs |-> NilBytes]
    /\ err = [p \in Procs |-> NilErr]
    /\ ret = [p \in Procs |-> NoRet]
    /\ trace = [p \in Procs |-> NoTrace]

IsHTTP(p) == call[p].op \in {"HTTPGet", "HTTPPost"}

-----------------------------------------------------------------------------
(* Returns *)

\* A return statement of HTTPGet/HTTPPost with these result values.
ReturnHTTP(p, r, e) ==
    /\ pc' = [pc EXCEPT ![p] = "done"]
    /\ ret' = [ret EXCEPT ![p] = [returned |-> TRUE, resp |-> r, err |-> e]]
    /\ uri' = [uri EXCEPT ![p] = <<>>]
    /\ payload' = [payload EXCEPT ![p] = <<>>]
    /\ resp' = [resp EXCEPT ![p] = NilBytes]
    /\ err' = [err EXCEPT ![p] = NilErr]
    /\ attempt' = [attempt EXCEPT ![p] = 0]

\* A return statement of GetAccessToken / NoticeRefreshAccessToken called directly.
ReturnToken(p, accessToken, e) ==
    /\ pc' = [pc EXCEPT ![p] = "done"]
    /\ ret' = [ret EXCEPT ![p] = [returned |-> TRUE, accessToken |-> accessToken, err |-> e]]
    /\ UNCHANGED <<attempt, uri, payload, resp, err>>

\* What the named results hold at a bare return inside the
\* err == NeedRefreshAccessTokenError branch, whose own err shadows the
\* function's: the values the first responseFilter left.
BareReturnInBranch(p, branchErr) == [resp |-> resp[p], err |-> err[p]]

\* What the caller does with the results of GetAccessTokenHandler: the call
\* itself, or applyAccessToken inside HTTPGet/HTTPPost, which sends the
\* request when it got a token (Post reads the payload reader to its end).
ReturnFromGetAccessToken(p, tr, accessToken, e) ==
    LET t1 == [tr EXCEPT !.gat.returned = TRUE, !.gat.accessToken = accessToken, !.gat.err = e] IN
    IF ~IsHTTP(p)
    THEN /\ ReturnToken(p, accessToken, e)
         /\ trace' = [trace EXCEPT ![p] = t1]
    ELSE IF e # NilErr
    THEN /\ trace' = [trace EXCEPT ![p] = t1]
         /\ IF attempt[p] = 1
            THEN ReturnHTTP(p, NilBytes, e)
            ELSE LET r == BareReturnInBranch(p, e) IN ReturnHTTP(p, r.resp, r.err)
    ELSE LET newUrl == AppendAccessToken(uri[p], accessToken) IN
         /\ uri' = [uri EXCEPT ![p] = newUrl]
         /\ payload' = [payload EXCEPT ![p] = <<>>]
         /\ trace' = [trace EXCEPT ![p] =
                        [t1 EXCEPT !.reqs = Append(@, [uri |-> newUrl, body |-> payload[p]])]]
         /\ pc' = [pc EXCEPT ![p] = IF attempt[p] = 1 THEN "http_wait1" ELSE "http_wait2"]
         /\ UNCHANGED <<attempt, resp, err, ret>>

\* What the caller does with the results of GetRefreshAccessTokenHandler: the
\* call itself, or the branch of HTTPGet/HTTPPost, which goes on to
\* applyAccessToken(uri) when the refresh gave no error.
ReturnFromNoticeRefreshAccessToken(p, tr, accessToken, e) ==
    LET t1 == [tr EXCEPT !.forced = [returned |-> TRUE, accessToken |-> accessToken, err |-> e]] IN
    IF ~IsHTTP(p)
    THEN /\ ReturnToken(p, accessToken, e)
         /\ trace' = [trace EXCEPT ![p] = t1]
    ELSE IF e # NilErr
    THEN /\ trace' = [trace EXCEPT ![p] = t1]
         /\ LET r == BareReturnInBranch(p, e) IN ReturnHTTP(p, r.resp, r.err)
    ELSE /\ pc' = [pc EXCEPT ![p] = "gat_fetch1"]
         /\ trace' = [trace EXCEPT ![p] = [t1 EXCEPT !.gat = NoGat]]
         /\ UNCHANGED <<attempt, uri, payload, resp, err, ret>>

-----------------------------------------------------------------------------
(* Calls *)

CallGetAccessToken(p) ==
    /\ pc[p] = "idle"
    /\ \E a \in Appids :
          call' = [call EXCEPT ![p] = [op |-> "GetAccessToken", appid |-> a]]
    /\ pc' = [pc EXCEPT ![p] = "gat_fetch1"]
    /\ ncalls' = ncalls + 1
    /\ UNCHANGED <<cache, lock, issued, attempt, uri, payload, resp, err, ret, trace>>

CallNoticeRefreshAccessToken(p) ==
    /\ pc[p] = "idle"
    /\ \E a \in Appids :
          call' = [call EXCEPT ![p] = [op |-> "NoticeRefreshAccessToken", appid |-> a]]
    /\ pc' = [pc EXCEPT ![p] = "nr_lock"]
    /\ ncalls' = ncalls + 1
    /\ UNCHANGED <<cache, lock, issued, attempt, uri, payload, resp, err, ret, trace>>

\* HTTPGet up to the call of GetAccessTokenHandler in its first statement.
CallHTTPGet(E, p) ==
    /\ pc[p] = "idle"
    /\ \E a \in Appids, path \in E.paths :
          /\ call' = [call EXCEPT ![p] = [op |-> "HTTPGet", appid |-> a, uri |-> path]]
          /\ uri' = [uri EXCEPT ![p] = path]
    /\ attempt' = [attempt EXCEPT ![p] = 1]
    /\ pc' = [pc EXCEPT ![p] = "gat_fetch1"]
    /\ ncalls' = ncalls + 1
    /\ UNCHANGED <<cache, lock, issued, payload, resp, err, ret, trace>>

\* HTTPPost up to the call of GetAccessTokenHandler in its first statement.
CallHTTPPost(E, p) ==
    /\ pc[p] = "idle"
    /\ \E a \in Appids, path \in E.paths, body \in Payloads :
          /\ call' = [call EXCEPT ![p] =
                        [op |-> "HTTPPost", appid |-> a, uri |-> path, payload |-> body]]
          /\ uri' = [uri EXCEPT ![p] = path]
          /\ payload' = [payload EXCEPT ![p] = body]
    /\ attempt' = [attempt EXCEPT ![p] = 1]
    /\ pc' = [pc EXCEPT ![p] = "gat_fetch1"]
    /\ ncalls' = ncalls + 1
    /\ UNCHANGED <<cache, lock, issued, resp, err, ret, trace>>

\* The goroutine's call has returned and it makes another.
CallAgain(p) ==
    /\ pc[p] = "done"
    /\ ncalls < MaxCalls
    /\ pc' = [pc EXCEPT ![p] = "idle"]
    /\ call' = [call EXCEPT ![p] = NoCall]
    /\ ret' = [ret EXCEPT ![p] = NoRet]
    /\ trace' = [trace EXCEPT ![p] =
                   [NoTrace EXCEPT !.earlier =
                       IF trace[p].save.made /\ trace[p].save.err # NilErr
                       THEN [saveFailed |-> TRUE, appid |-> call[p].appid,
                             accessToken |-> trace[p].save.accessToken]
                       ELSE NoEarlier]]
    /\ UNCHANGED <<cache, lock, issued, ncalls, attempt, uri, payload, resp, err>>

-----------------------------------------------------------------------------
(* GetAccessToken *)

\* The test of the fetched value turned around.
FetchHitInverted(value) == value = ""

\* if accessToken != "" { return }
FetchHit(value) == value # ""

\* GetAccessToken with Lock() moved in front of the first Fetch: the Fetch
\* waits until the lock is free.
GetAccessToken_FetchBehindLock(E, p) ==
    /\ pc[p] = "gat_fetch1"
    /\ lock = 0
    /\ \E f \in FetchOutcomes(E, cache, call[p].appid) :
          LET tr == [trace[p] EXCEPT !.gat.fetched = Append(@, f.value)] IN
          IF FetchHit(f.value)
          THEN ReturnFromGetAccessToken(p, tr, f.value, f.err)
          ELSE /\ pc' = [pc EXCEPT ![p] = "gat_lock"]
               /\ trace' = [trace EXCEPT ![p] = tr]
               /\ UNCHANGED <<attempt, uri, payload, resp, err, ret>>
    /\ UNCHANGED <<cache, lock, issued, ncalls, call>>

\* The first Fetch, outside the lock.
GetAccessToken_Fetch(E, p) ==
    /\ pc[p] = "gat_fetch1"
    /\ \E f \in FetchOutcomes(E, cache, call[p].appid) :
          LET tr == [trace[p] EXCEPT !.gat.fetched = Append(@, f.value)] IN
          IF FetchHit(f.value)
          THEN ReturnFromGetAccessToken(p, tr, f.value, f.err)
          ELSE /\ pc' = [pc EXCEPT ![p] = "gat_lock"]
               /\ trace' = [trace EXCEPT ![p] = tr]
               /\ UNCHANGED <<attempt, uri, payload, resp, err, ret>>
    /\ UNCHANGED <<cache, lock, issued, ncalls, call>>

\* GetAccessToken that goes on to its second Fetch without taking the lock.
GetAccessToken_LockNotTaken(p) ==
    /\ pc[p] = "gat_lock"
    /\ pc' = [pc EXCEPT ![p] = "gat_fetch2"]
    /\ UNCHANGED <<cache, lock, issued, ncalls, call, attempt, uri, payload, resp, err, ret, trace>>

\* refreshAccessTokenLock.Lock()
GetAccessToken_Lock(p) ==
    /\ pc[p] = "gat_lock"
    /\ lock = 0
    /\ lock' = p
    /\ pc' = [pc EXCEPT ![p] = "gat_fetch2"]
    /\ UNCHANGED <<cache, issued, ncalls, call, attempt, uri, payload, resp, err, ret, trace>>

\* A return that leaves the lock held.
UnlockMissing(p) == lock' = lock

\* An Unlock that HTTPGet/HTTPPost put off until their own return.
UnlockOnlyDirect(p) == lock' = IF IsHTTP(p) THEN lock ELSE 0

\* The deferred refreshAccessTokenLock.Unlock(), run by every return after Lock().
Unlock(p) == lock' = 0

\* A refreshAccessTokenFromWXServer begins: its request leaves for the issuer.
InvokeIssuer(tr, by) ==
    [tr EXCEPT !.issuer = @ + 1,
               !.gat.issuer = IF by = "GetAccessToken" THEN @ + 1 ELSE @,
               !.refresh = [by |-> by, returned |-> FALSE]]

\* GetAccessToken without the second Fetch: the issuer is called as soon as the
\* lock is held.
GetAccessToken_NoRecheck(E, p) ==
    /\ pc[p] = "gat_fetch2"
    /\ pc' = [pc EXCEPT ![p] = "gat_issuer"]
    /\ trace' = [trace EXCEPT ![p] = InvokeIssuer(@, "GetAccessToken")]
    /\ UNCHANGED <<cache, lock, issued, ncalls, call, attempt, uri, payload, resp, err, ret>>

\* The Fetch under the lock; on a miss refreshAccessTokenFromWXServer is called.
GetAccessToken_Recheck(E, p) ==
    /\ pc[p] = "gat_fetch2"
    /\ \E f \in FetchOutcomes(E, cache, call[p].appid) :
          LET tr == [trace[p] EXCEPT !.gat.fetched = Append(@, f.value)] IN
          IF FetchHit(f.value)
          THEN /\ ReturnFromGetAccessToken(p, tr, f.value, f.err)
               /\ Unlock(p)
          ELSE /\ pc' = [pc EXCEPT ![p] = "gat_issuer"]
               /\ trace' = [trace EXCEPT ![p] = InvokeIssuer(tr, "GetAccessToken")]
               /\ UNCHANGED <<lock, attempt, uri, payload, resp, err, ret>>
    /\ UNCHANGED <<cache, issued, ncalls, call>>

\* An error check that lets every answer of the issuer through to the save.
RefreshFailedIgnored(r) == FALSE

\* if err != nil { return } after refreshAccessTokenFromWXServer
RefreshFailed(r) == r.err # NilErr

\* The return statement of the function that made the refresh.
ReturnFromRefresh(p, by, tr, accessToken, e) ==
    IF by = "GetAccessToken"
    THEN ReturnFromGetAccessToken(p, tr, accessToken, e)
    ELSE ReturnFromNoticeRefreshAccessToken(p, tr, accessToken, e)

\* A refresh whose return hands the error of Cache.Save to the caller.
RefreshAndSaveReporting(E, p, by) ==
    \E outcome \in IssuerOutcomes(E) :
       LET r == refreshAccessTokenFromWXServer(outcome) IN
       /\ issued' = IF HasToken(outcome) THEN issued + 1 ELSE issued
       /\ IF RefreshFailed(r)
          THEN /\ ReturnFromRefresh(p, by, [trace[p] EXCEPT !.refresh =
                               [by |-> by, returned |-> TRUE,
                                accessToken |-> r.accessToken,
                                expiresIn |-> r.expiresIn, err |-> r.err, saved |-> FALSE]],
                         r.accessToken, r.err)
               /\ UNCHANGED cache
          ELSE LET d == ShrinkExpiresIn(r.expiresIn) IN
               \E s \in SaveOutcomes(E, cache, call[p].appid, r.accessToken, d) :
                  /\ cache' = s.cache
                  /\ ReturnFromRefresh(p, by, [trace[p] EXCEPT !.refresh =
                                  [by |-> by, returned |-> TRUE,
                                   accessToken |-> r.accessToken,
                                   expiresIn |-> r.expiresIn, err |-> NilErr, saved |-> TRUE,
                                   d |-> d, saveErr |-> s.err],
                                 !.save = [made |-> TRUE, accessToken |-> r.accessToken,
                                           err |-> s.err]],
                            r.accessToken, s.err)
       /\ Unlock(p)

\* From the return of refreshAccessTokenFromWXServer to the function's return:
\* the error check, the shrunk lifetime, Cache.Save with its error dropped,
\* the deferred Unlock.
RefreshAndSave(E, p, by) ==
    \E outcome \in IssuerOutcomes(E) :
       LET r == refreshAccessTokenFromWXServer(outcome) IN
       /\ issued' = IF HasToken(outcome) THEN issued + 1 ELSE issued
       /\ IF RefreshFailed(r)
          THEN /\ ReturnFromRefresh(p, by, [trace[p] EXCEPT !.refresh =
                               [by |-> by, returned |-> TRUE,
                                accessToken |-> r.accessToken,
                                expiresIn |-> r.expiresIn, err |-> r.err, saved |-> FALSE]],
                         r.accessToken, r.err)
               /\ UNCHANGED cache
          ELSE LET d == ShrinkExpiresIn(r.expiresIn) IN
               \E s \in SaveOutcomes(E, cache, call[p].appid, r.accessToken, d) :
                  /\ cache' = s.cache
                  /\ ReturnFromRefresh(p, by, [trace[p] EXCEPT !.refresh =
                                  [by |-> by, returned |-> TRUE,
                                   accessToken |-> r.accessToken,
                                   expiresIn |-> r.expiresIn, err |-> NilErr, saved |-> TRUE,
                                   d |-> d, saveErr |-> s.err],
                                 !.save = [made |-> TRUE, accessToken |-> r.accessToken,
                                           err |-> s.err]],
                            r.accessToken, NilErr)
       /\ Unlock(p)

GetAccessToken_Refresh(E, p) ==
    /\ pc[p] = "gat_issuer"
    /\ RefreshAndSave(E, p, "GetAccessToken")
    /\ UNCHANGED <<ncalls, call>>

-----------------------------------------------------------------------------
(* NoticeRefreshAccessToken *)

\* NoticeRefreshAccessToken that looks into the cache first and hands back
\* what it finds there.
NoticeRefreshAccessToken_LockChecked(p) ==
    /\ pc[p] = "nr_lock"
    /\ lock = 0
    /\ IF cache[call[p].appid].value # ""
       THEN /\ ReturnFromNoticeRefreshAccessToken(p, trace[p], cache[call[p].appid].value, NilErr)
            /\ UNCHANGED lock
       ELSE /\ lock' = p
            /\ pc' = [pc EXCEPT ![p] = "nr_issuer"]
            /\ trace' = [trace EXCEPT ![p] = InvokeIssuer(@, "NoticeRefreshAccessToken")]
            /\ UNCHANGED <<attempt, uri, payload, resp, err, ret>>
    /\ UNCHANGED <<cache, issued, ncalls, call>>

\* refreshAccessTokenLock.Lock(), then refreshAccessTokenFromWXServer is called.
NoticeRefreshAccessToken_Lock(p) ==
    /\ pc[p] = "nr_lock"
    /\ lock = 0
    /\ lock' = p
    /\ pc' = [pc EXCEPT ![p] = "nr_issuer"]
    /\ trace' = [trace EXCEPT ![p] = InvokeIssuer(@, "NoticeRefreshAccessToken")]
    /\ UNCHANGED <<cache, issued, ncalls, call, attempt, uri, payload, resp, err, ret>>

NoticeRefreshAccessToken_Refresh(E, p) ==
    /\ pc[p] = "nr_issuer"
    /\ RefreshAndSave(E, p, "NoticeRefreshAccessToken")
    /\ UNCHANGED <<ncalls, call>>

-----------------------------------------------------------------------------
(* HTTPGet / HTTPPost *)

\* The other goroutines that are inside GetRefreshAccessTokenHandler because
\* the token p sent was rejected for them as well.
InForcedRefreshFor(p) ==
    { q \in Procs \ {p} :
         /\ IsHTTP(q)
         /\ pc[q] \in {"nr_lock", "nr_issuer"}
         /\ call[q].appid = call[p].appid
         /\ AccessTokenParams(trace[q].reqs[1].uri) = AccessTokenParams(trace[p].reqs[1].uri) }

\* A branch taken on any error of the first attempt.
TakesRefreshBranchAnyError(e) == e # NilErr

\* if err == NeedRefreshAccessTokenError
TakesRefreshBranch(e) == e = NeedRefreshAccessTokenError

\* The first response: a transport failure returns; otherwise responseFilter,
\* and on the credential-invalid signal the call of GetRefreshAccessTokenHandler.
HTTP_FirstResponse(E, p) ==
    /\ pc[p] = "http_wait1"
    /\ \E outcome \in E.platform :
          /\ trace' = [trace EXCEPT ![p] =
                         IF IsResponse(outcome) /\ TakesRefreshBranch(responseFilter(outcome).err)
                         THEN [@ EXCEPT !.responses = Append(@, outcome),
                                        !.notices = @ + 1,
                                        !.peers = InForcedRefreshFor(p)]
                         ELSE [@ EXCEPT !.responses = Append(@, outcome)]]
          /\ IF IsTransportFailure(outcome)
             THEN ReturnHTTP(p, NilBytes, Error("http", NilBytes))
             ELSE LET f == responseFilter(outcome) IN
                  IF TakesRefreshBranch(f.err)
                  THEN /\ resp' = [resp EXCEPT ![p] = f.resp]
                       /\ err' = [err EXCEPT ![p] = f.err]
                       /\ attempt' = [attempt EXCEPT ![p] = 2]
                       /\ pc' = [pc EXCEPT ![p] = "nr_lock"]
                       /\ UNCHANGED <<uri, payload, ret>>
                  ELSE ReturnHTTP(p, f.resp, f.err)
    /\ UNCHANGED <<cache, lock, issued, ncalls, call>>

\* A second response that is treated like the first: credential-invalid
\* starts another refresh and another request.
HTTP_SecondResponseRetrying(E, p) ==
    /\ pc[p] = "http_wait2"
    /\ \E outcome \in E.platform :
          /\ trace' = [trace EXCEPT ![p] =
                         [@ EXCEPT !.responses = Append(@, outcome),
                                   !.notices = IF IsResponse(outcome)
                                                  /\ TakesRefreshBranch(responseFilter(outcome).err)
                                               THEN @ + 1 ELSE @]]
          /\ IF IsTransportFailure(outcome)
             THEN LET r == BareReturnInBranch(p, Error("http", NilBytes)) IN
                  ReturnHTTP(p, r.resp, r.err)
             ELSE LET f == responseFilter(outcome) IN
                  IF TakesRefreshBranch(f.err)
                  THEN /\ pc' = [pc EXCEPT ![p] = "nr_lock"]
                       /\ UNCHANGED <<attempt, uri, payload, resp, err, ret>>
                  ELSE ReturnHTTP(p, f.resp, f.err)
    /\ UNCHANGED <<cache, lock, issued, ncalls, call>>

\* The second response, inside the branch: a transport failure sets the
\* branch's err and returns bare; otherwise return responseFilter(response).
HTTP_SecondResponse(E, p) ==
    /\ pc[p] = "http_wait2"
    /\ \E outcome \in E.platform :
          /\ trace' = [trace EXCEPT ![p].responses = Append(@, outcome)]
          /\ IF IsTransportFailure(outcome)
             THEN LET r == BareReturnInBranch(p, Error("http", NilBytes)) IN
                  ReturnHTTP(p, r.resp, r.err)
             ELSE LET f == responseFilter(outcome) IN ReturnHTTP(p, f.resp, f.err)
    /\ UNCHANGED <<cache, lock, issued, ncalls, call>>

-----------------------------------------------------------------------------
(* The cache's own clock *)

\* An entry's TTL runs out: Fetch reports a miss from now on.
CacheExpire ==
    /\ \E a \in Appids :
          /\ cache[a] # NoEntry
          /\ cache' = [cache EXCEPT ![a] = NoEntry]
    /\ UNCHANGED <<lock, issued, ncalls, pc, call, attempt, uri, payload, resp, err, ret, trace>>

-----------------------------------------------------------------------------
(* A peer that never answers *)

\* http.Get and http.Post go through http.DefaultClient, whose Timeout is
\* zero: when the peer takes the request and never answers, the call stays
\* inside http.Get / http.Post; nothing in the code ends the wait.
NeverAnswered(p) ==
    /\ pc[p] \in {"http_wait1", "http_wait2", "gat_issuer", "nr_issuer"}
    /\ pc' = [pc EXCEPT ![p] = "blocked"]
    /\ UNCHANGED <<cache, lock, issued, ncalls, call, attempt, uri, payload, resp, err, ret, trace>>

-----------------------------------------------------------------------------
(* Specifications *)

\* Goroutines call concurrently, one call each; the outside world gives one
\* outcome of each kind.
Next ==
    \/ \E p \in Clients : CallGetAccessToken(p)
    \/ \E p \in Clients : CallNoticeRefreshAccessToken(p)
    \/ \E p \in Clients : CallHTTPGet(EnvKinds, p)
    \/ \E p \in Clients : CallHTTPPost(EnvKinds, p)
    \/ \E p \in Clients : GetAccessToken_Fetch(EnvKinds, p)
    \/ \E p \in Clients : GetAccessToken_Lock(p)
    \/ \E p \in Clients : GetAccessToken_Recheck(EnvKinds, p)
    \/ \E p \in Clients : GetAccessToken_Refresh(EnvKinds, p)
    \/ \E p \in Clients : NoticeRefreshAccessToken_Lock(p)
    \/ \E p \in Clients : NoticeRefreshAccessToken_Refresh(EnvKinds, p)
    \/ \E p \in Clients : HTTP_FirstResponse(EnvKinds, p)
    \/ \E p \in Clients : HTTP_SecondResponse(EnvKinds, p)
    \/ CacheExpire

Spec == Init /\ [][Next]_vars

\* One goroutine makes calls one after the other; the outside world gives
\* every outcome of the data sets.
NextSequential ==
    \/ CallGetAccessToken(1)
    \/ CallNoticeRefreshAccessToken(1)
    \/ CallHTTPGet(EnvAll, 1)
    \/ CallHTTPPost(EnvAll, 1)
    \/ CallAgain(1)
    \/ GetAccessToken_Fetch(EnvAll, 1)
    \/ GetAccessToken_Lock(1)
    \/ GetAccessToken_Recheck(EnvAll, 1)
    \/ GetAccessToken_Refresh(EnvAll, 1)
    \/ NoticeRefreshAccessToken_Lock(1)
    \/ NoticeRefreshAccessToken_Refresh(EnvAll, 1)
    \/ HTTP_FirstResponse(EnvAll, 1)
    \/ HTTP_SecondResponse(EnvAll, 1)
    \/ CacheExpire

SpecSequential == Init /\ [][NextSequential]_vars

\* Every goroutine calls GetAccessToken, the issuer answers with a token and
\* the cache keeps what it is given.
NextSingleFlight ==
    \/ \E p \in Procs : CallGetAccessToken(p)
    \/ \E p \in Procs : GetAccessToken_Fetch(EnvHealthy, p)
    \/ \E p \in Procs : GetAccessToken_Lock(p)
    \/ \E p \in Procs : GetAccessToken_Recheck(EnvHealthy, p)
    \/ \E p \in Procs : GetAccessToken_Refresh(EnvHealthy, p)

SpecSingleFlight == Init /\ [][NextSingleFlight]_vars

\* Goroutines call concurrently, one call each; the issuer answers with a
\* token, and the cache keeps what it is given and lets nothing expire.
NextHealthy ==
    \/ \E p \in Clients : CallGetAccessToken(p)
    \/ \E p \in Clients : CallNoticeRefreshAccessToken(p)
    \/ \E p \in Clients : CallHTTPGet(EnvHealthy, p)
    \/ \E p \in Clients : CallHTTPPost(EnvHealthy, p)
    \/ \E p \in Clients : GetAccessToken_Fetch(EnvHealthy, p)
    \/ \E p \in Clients : GetAccessToken_Lock(p)
    \/ \E p \in Clients : GetAccessToken_Recheck(EnvHealthy, p)
    \/ \E p \in Clients : GetAccessToken_Refresh(EnvHealthy, p)
    \/ \E p \in Clients : NoticeRefreshAccessToken_Lock(p)
    \/ \E p \in Clients : NoticeRefreshAccessToken_Refresh(EnvHealthy, p)
    \/ \E p \in Clients : HTTP_FirstResponse(EnvHealthy, p)
    \/ \E p \in Clients : HTTP_SecondResponse(EnvHealthy, p)

SpecHealthy == Init /\ [][NextHealthy]_vars

\* One goroutine makes calls one after the other; a peer may take a request
\* and never answer it.  Whatever step can be taken is taken in the end.
NextUnanswered ==
    \/ CallGetAccessToken(1)
    \/ CallNoticeRefreshAccessToken(1)
    \/ CallHTTPGet(EnvKinds, 1)
    \/ CallHTTPPost(EnvKinds, 1)
    \/ CallAgain(1)
    \/ GetAccessToken_Fetch(EnvKinds, 1)
    \/ GetAccessToken_Lock(1)
    \/ GetAccessToken_Recheck(EnvKinds, 1)
    \/ GetAccessToken_Refresh(EnvKinds, 1)
    \/ NoticeRefreshAccessToken_Lock(1)
    \/ NoticeRefreshAccessToken_Refresh(EnvKinds, 1)
    \/ HTTP_FirstResponse(EnvKinds, 1)
    \/ HTTP_SecondResponse(EnvKinds, 1)
    \/ NeverAnswered(1)
    \/ CacheExpire

SpecUnanswered == Init /\ [][NextUnanswered]_vars /\ WF_vars(NextUnanswered)

-----------------------------------------------------------------------------
(* Vocabulary of the properties *)

Done(p) == pc[p] = "done"

RECURSIVE SumIssuer(_)
SumIssuer(S) ==
    IF S = {} THEN 0
    ELSE LET p == CHOOSE q \in S : TRUE IN trace[p].issuer + SumIssuer(S \ {p})

\* Invocations of refreshAccessTokenFromWXServer by all calls together.
TotalIssuerInvocations == SumIssuer(Procs)

\* The call waited for the lock and its Fetch under the lock gave a value.
RecheckHit(p) ==
    /\ Len(trace[p].gat.fetched) = 2
    /\ trace[p].gat.fetched[2] # ""

\* The i-th platform outcome of the call is a response that responseFilter
\* answers with the credential-invalid signal.
CredentialInvalid(p, i) ==
    /\ Len(trace[p].responses) >= i
    /\ IsResponse(trace[p].responses[i])
    /\ trace[p].responses[i].StatusCode = StatusOK
    /\ trace[p].responses[i].readable
    /\ trace[p].responses[i].Body.wellformed
    /\ "errcode" \in DOMAIN trace[p].responses[i].Body
    /\ trace[p].responses[i].Body.errcode \in {40001, 40014}

\* The forced refresh of the call came back, with or without an error.
ForcedRefreshFailed(p) ==
    /\ trace[p].forced.returned
    /\ trace[p].forced.err # NilErr

ForcedRefreshSucceeded(p) ==
    /\ trace[p].forced.returned
    /\ trace[p].forced.err = NilErr

-----------------------------------------------------------------------------
(* C1 *)

\* The goroutines whose call is for identity a.
CallersOf(a) == { p \in Procs : call[p].op # "none" /\ call[p].appid = a }

\* C1: when every goroutine calls GetAccessToken, the issuer answers with a
\* token and the cache keeps what it is given, then for each identity the
\* issuer is invoked at most once by all its callers together and exactly once
\* as soon as one of them has returned; every call that returned gives a
\* non-empty token with a nil error, the same token as every other call for
\* that identity; and a call that finds the value on its Fetch under the lock
\* returns that value without invoking the issuer.
C1_SingleFlight ==
    /\ \A a \in Appids :
          /\ SumIssuer(CallersOf(a)) <= 1
          /\ (\E p \in CallersOf(a) : Done(p)) => SumIssuer(CallersOf(a)) = 1
    /\ \A p, q \in Procs :
          Done(p) /\ Done(q) /\ call[p].appid = call[q].appid =>
             /\ ret[p].err = NilErr
             /\ ret[p].accessToken # ""
             /\ ret[p].accessToken = ret[q].accessToken
    /\ \A p \in Procs :
          RecheckHit(p) =>
             /\ trace[p].issuer = 0
             /\ Done(p)
             /\ ret[p].accessToken = trace[p].gat.fetched[2]

\* All goroutines called for the same identity and found the cache empty on
\* their first Fetch, all have returned, and one of them got the token from
\* its Fetch under the lock.
C1_Witness ==
    /\ \A p \in Procs :
          /\ Done(p)
          /\ call[p].op = "GetAccessToken"
          /\ call[p].appid = "wx1"
          /\ trace[p].gat.fetched[1] = ""
    /\ \E p \in Procs : RecheckHit(p)

-----------------------------------------------------------------------------
(* C2 *)

\* C2: in one HTTPGet or HTTPPost call a credential-invalid first response
\* leads to exactly one call of the refresh handler, and to exactly one more
\* platform request once that refresh and the token lookup after it gave no
\* error; a second request is only ever sent after such a refresh; when a
\* second response arrives, what responseFilter makes of it is what the call
\* returns, also when it is credential-invalid again; and no call sends a
\* third request or refreshes twice.
C2_OneRetry ==
    \A p \in Procs :
       IsHTTP(p) =>
          /\ Len(trace[p].reqs) <= 2
          /\ trace[p].notices <= 1
          /\ CredentialInvalid(p, 1) => trace[p].notices = 1
          /\ Len(trace[p].reqs) = 2 => CredentialInvalid(p, 1) /\ ForcedRefreshSucceeded(p)
          /\ ( /\ ForcedRefreshSucceeded(p)
               /\ trace[p].gat.returned
               /\ trace[p].gat.err = NilErr ) => Len(trace[p].reqs) = 2
          /\ ( /\ Done(p)
               /\ Len(trace[p].responses) = 2
               /\ IsResponse(trace[p].responses[2]) ) =>
                  /\ ret[p].resp = responseFilter(trace[p].responses[2]).resp
                  /\ ret[p].err = responseFilter(trace[p].responses[2]).err
                  /\ CredentialInvalid(p, 2) => ret[p].err = NeedRefreshAccessTokenError

\* A call whose first and second responses were both credential-invalid has
\* returned that failure after two requests and one refresh.
C2_Witness ==
    \E p \in Procs :
       /\ IsHTTP(p)
       /\ Done(p)
       /\ CredentialInvalid(p, 1)
       /\ CredentialInvalid(p, 2)
       /\ Len(trace[p].reqs) = 2
       /\ trace[p].notices = 1
       /\ ret[p].err = NeedRefreshAccessTokenError

-----------------------------------------------------------------------------
(* C3 *)

\* The call sent token t, was told it is invalid, and its forced refresh has
\* invoked the issuer.
ForcedIssuerInvocationFor(p, t) ==
    /\ IsHTTP(p)
    /\ CredentialInvalid(p, 1)
    /\ AccessTokenParams(trace[p].reqs[1].uri) = <<t>>
    /\ trace[p].notices = 1
    /\ pc[p] # "nr_lock"

\* C3: of the callers that find the same token invalid while one another's
\* forced refresh is still under way, at most one invokes the issuer.
C3_OneRefreshPerDiscovery ==
    \A t \in Tokens : \A q \in Procs : \A p \in trace[q].peers :
       ~(ForcedIssuerInvocationFor(p, t) /\ ForcedIssuerInvocationFor(q, t))

-----------------------------------------------------------------------------
(* C4 *)

\* C4: a Fetch of GetAccessToken that gives a non-empty value is the last
\* thing that invocation does: it has returned that value and it has not
\* invoked the issuer; called directly, that value is the call's result.
C4_HitReturnsWithoutIssuer ==
    \A p \in Procs : \A i \in DOMAIN trace[p].gat.fetched :
       trace[p].gat.fetched[i] # "" =>
          /\ i = Len(trace[p].gat.fetched)
          /\ trace[p].gat.returned
          /\ trace[p].gat.accessToken = trace[p].gat.fetched[i]
          /\ trace[p].gat.issuer = 0
          /\ call[p].op = "GetAccessToken" =>
                /\ Done(p)
                /\ ret[p].accessToken = trace[p].gat.fetched[i]
                /\ trace[p].issuer = 0

\* A call of GetAccessToken waited for the lock, got a value from its Fetch
\* under the lock and returned it.
C4_Witness ==
    \E p \in Procs :
       /\ call[p].op = "GetAccessToken"
       /\ Done(p)
       /\ RecheckHit(p)
       /\ ret[p].accessToken = trace[p].gat.fetched[2]

-----------------------------------------------------------------------------
(* C5 *)

\* The step in which goroutine p receives the issuer's answer inside
\* NoticeRefreshAccessToken.
ForcedRefreshReturns(p) == pc[p] = "nr_issuer" /\ pc'[p] # "nr_issuer"

\* C5: NoticeRefreshAccessToken makes no Fetch and invokes the issuer whatever
\* the cache holds; when the issuer gives a token and Cache.Save reports no
\* error, the cache holds that token for the identity right after the call,
\* and it is the token the call returns.
C5_ForceRefreshOverwrites ==
    /\ [](\A p \in Procs :
            call[p].op = "NoticeRefreshAccessToken" /\ pc[p] \in {"nr_issuer", "done"} =>
               /\ trace[p].issuer = 1
               /\ trace[p].gat.fetched = <<>>)
    /\ [][\A p \in Procs :
            ForcedRefreshReturns(p) /\ trace'[p].refresh.err = NilErr =>
               /\ trace'[p].refresh.accessToken # ""
               /\ trace'[p].forced.accessToken = trace'[p].refresh.accessToken
               /\ trace'[p].forced.err = NilErr
               /\ ~IsHTTP(p) => ret'[p].accessToken = trace'[p].refresh.accessToken
               /\ trace'[p].refresh.saveErr = NilErr =>
                     cache'[call[p].appid].value = trace'[p].refresh.accessToken]_vars

\* A direct NoticeRefreshAccessToken has returned the issuer's new token, and
\* the cache holds it in place of the token another call's GetAccessToken
\* had saved there before.
C5_Witness ==
    \E p, q \in Procs :
       /\ call[p].op = "NoticeRefreshAccessToken"
       /\ Done(p)
       /\ trace[p].issuer = 1
       /\ ret[p].err = NilErr
       /\ ret[p].accessToken = "T2"
       /\ cache[call[p].appid].value = "T2"
       /\ Done(q)
       /\ trace[q].refresh.by = "GetAccessToken"
       /\ trace[q].refresh.returned
       /\ trace[q].refresh.accessToken = "T1"
       /\ trace[q].refresh.saveErr = NilErr

-----------------------------------------------------------------------------
(* C6 *)

\* C6: the second request of a call goes to the path the caller passed with
\* the token of the second lookup as its only access_token parameter.
C6_RetryCarriesOnlyNewToken ==
    \A p \in Procs :
       IsHTTP(p) /\ Len(trace[p].reqs) = 2 =>
          /\ trace[p].reqs[2].uri = AppendAccessToken(call[p].uri, trace[p].gat.accessToken)
          /\ AccessTokenParams(trace[p].reqs[2].uri) = <<trace[p].gat.accessToken>>

-----------------------------------------------------------------------------
(* C7 *)

\* C7: a call whose forced refresh failed returns the error of that refresh
\* and has sent one request only.
C7_RefreshFailureReturned ==
    \A p \in Procs :
       IsHTTP(p) /\ Done(p) /\ CredentialInvalid(p, 1) /\ ForcedRefreshFailed(p) =>
          /\ ret[p].err = trace[p].forced.err
          /\ Len(trace[p].reqs) = 1

-----------------------------------------------------------------------------
(* C8 *)

\* The errcode of a JSON envelope; a missing field counts as 0.
EnvelopeCode(body) == IF "errcode" \in DOMAIN body THEN body.errcode ELSE 0

\* The call has returned what responseFilter made of its last response.
ReturnedFilterOutcome(p) ==
    /\ IsHTTP(p)
    /\ Done(p)
    /\ \/ Len(trace[p].responses) = 2
       \/ Len(trace[p].responses) = 1 /\ trace[p].notices = 0
    /\ IsResponse(trace[p].responses[Len(trace[p].responses)])

\* C8: responseFilter settles on the first rule that applies. A status other
\* than 200 gives a status error and no bytes, whatever the body holds; a body
\* that does not parse gives a parse error; errcode 40001 or 40014 gives
\* NeedRefreshAccessTokenError; any other non-zero errcode gives an error
\* whose text is the body; errcode 0 or no errcode gives the body and nil.
C8_Classification ==
    \A p \in Procs :
       /\ ReturnedFilterOutcome(p) =>
             LET r == trace[p].responses[Len(trace[p].responses)]
                 b == r.Body
             IN  /\ r.StatusCode # 200 =>
                       ret[p].resp = NilBytes /\ ret[p].err = Error("Status", NilBytes)
                 /\ r.StatusCode = 200 /\ r.readable /\ ~b.wellformed =>
                       ret[p].err = Error("Unmarshal", NilBytes)
                 /\ r.StatusCode = 200 /\ r.readable /\ b.wellformed =>
                       /\ EnvelopeCode(b) \in {40001, 40014} =>
                             ret[p].err = NeedRefreshAccessTokenError
                       /\ EnvelopeCode(b) \notin {40001, 40014, 0} =>
                             ret[p].resp = b /\ ret[p].err = Error("errors.New", b)
                       /\ EnvelopeCode(b) = 0 =>
                             ret[p].resp = b /\ ret[p].err = NilErr
       /\ IsHTTP(p) /\ Len(trace[p].responses) = 1 /\ IsResponse(trace[p].responses[1]) =>
             LET r == trace[p].responses[1] IN
             ( /\ r.StatusCode = 200 /\ r.readable /\ r.Body.wellformed
               /\ EnvelopeCode(r.Body) \in {40001, 40014} ) <=> trace[p].notices = 1

\* Calls have returned: one a status error for a 500 whose body names 40001,
\* without a refresh; or an application error for 99999; or the body with
\* nil for an envelope without errcode.
C8_Witness ==
    \E p \in Procs :
       /\ ReturnedFilterOutcome(p)
       /\ Len(trace[p].responses) = 1
       /\ trace[p].responses[1].StatusCode = 500
       /\ EnvelopeCode(trace[p].responses[1].Body) = 40001
       /\ ret[p].err = Error("Status", NilBytes)
       /\ trace[p].issuer = 0

-----------------------------------------------------------------------------
(* C9 *)

\* d is 0.9 * e with the fraction cut off.
NineTenthsTruncated(e, d) ==
    IF e >= 0 THEN 10 * d <= 9 * e /\ 9 * e < 10 * d + 10
    ELSE 10 * d >= 9 * e /\ 9 * e > 10 * d - 10

\* The latest refresh of the call got a token and went on to Cache.Save.
Saved(tr) == tr.refresh.by # "none" /\ tr.refresh.returned /\ tr.refresh.saved

\* The step in which goroutine p receives the issuer's answer.
RefreshReturns(p) == pc[p] \in {"gat_issuer", "nr_issuer"} /\ pc'[p] # pc[p]

\* C9 as stated: every save uses 0.9 * expires_in cut to whole seconds, and
\* that is strictly less than expires_in for every expires_in.
C9_SavedTTLBelowExpiresIn ==
    \A p \in Procs :
       Saved(trace[p]) =>
          /\ NineTenthsTruncated(trace[p].refresh.expiresIn, trace[p].refresh.d)
          /\ trace[p].refresh.d < trace[p].refresh.expiresIn

\* C9, amended: every save by GetAccessToken or NoticeRefreshAccessToken is
\* given 0.9 * expires_in with the fraction cut off (7200 gives 6480) and the
\* entry stored carries it; it is strictly less than expires_in for every
\* expires_in of 1 or more.
C9_SavedTTLShrunk ==
    /\ [](\A p \in Procs :
            Saved(trace[p]) =>
               /\ NineTenthsTruncated(trace[p].refresh.expiresIn, trace[p].refresh.d)
               /\ trace[p].refresh.expiresIn = 7200 => trace[p].refresh.d = 6480
               /\ trace[p].refresh.expiresIn >= 1 =>
                     trace[p].refresh.d < trace[p].refresh.expiresIn)
    /\ [][\A p \in Procs :
            RefreshReturns(p) /\ Saved(trace'[p]) /\ trace'[p].refresh.saveErr = NilErr =>
               cache'[call[p].appid] =
                  [value |-> trace'[p].refresh.accessToken, ttl |-> trace'[p].refresh.d]]_vars

\* The issuer reported 7200 and the cache holds the token with a TTL of 6480.
C9_Witness ==
    \E p \in Procs :
       /\ Saved(trace[p])
       /\ trace[p].refresh.expiresIn = 7200
       /\ trace[p].refresh.saveErr = NilErr
       /\ cache[call[p].appid] = [value |-> trace[p].refresh.accessToken, ttl |-> 6480]

-----------------------------------------------------------------------------
(* C10 *)

\* The goroutine is between Lock() and the return that unlocks.
InCriticalSection(p) == pc[p] \in {"gat_fetch2", "gat_issuer", "nr_issuer"}

\* C10: the lock is held exactly while its holder is between Lock() and its
\* return; a call that has left that section, by the hit under the lock, by
\* a failed refresh or by a save, does not hold the lock.
C10_LockReleased ==
    /\ lock # 0 => lock \in Procs /\ InCriticalSection(lock)
    /\ \A p \in Procs : InCriticalSection(p) => lock = p
    /\ (\A p \in Procs : ~InCriticalSection(p)) => lock = 0

\* One call's refresh has failed and it has returned; another call holds the
\* lock now, and a third way out, the hit under the lock, is covered by the
\* same invariant.
C10_Witness ==
    \E p, q \in Procs :
       /\ p # q
       /\ Done(p)
       /\ trace[p].refresh.by # "none"
       /\ trace[p].refresh.returned
       /\ trace[p].refresh.err # NilErr
       /\ lock = q
       /\ InCriticalSection(q)

-----------------------------------------------------------------------------
(* C11 *)

\* The call has sent a platform request and waits for its outcome.
RequestInFlight(p) ==
    /\ IsHTTP(p)
    /\ pc[p] \in {"http_wait1", "http_wait2"}
    /\ Len(trace[p].reqs) > Len(trace[p].responses)

\* C11: a caller whose platform request, first or retried, is in flight does
\* not hold the refresh lock; whoever holds it is at the Fetch under the lock
\* or between the call of the issuer and the return after the save, and has
\* no request outstanding.
C11_LockNotHeldAcrossRequest ==
    /\ \A p \in Procs : RequestInFlight(p) => lock # p
    /\ \A p \in Procs :
          lock = p =>
             /\ pc[p] \notin {"idle", "gat_fetch1", "gat_lock", "nr_lock",
                              "http_wait1", "http_wait2", "done"}
             /\ Len(trace[p].reqs) = Len(trace[p].responses)

\* A caller's retried request is in flight, after its forced refresh under
\* the lock, while another caller holds the lock.
C11_Witness ==
    \E p, q \in Procs :
       /\ p # q
       /\ RequestInFlight(p)
       /\ pc[p] = "http_wait2"
       /\ trace[p].issuer >= 1
       /\ lock = q

-----------------------------------------------------------------------------
(* C12 *)

\* The first attempt has ended otherwise than in a credential-invalid response.
FirstAttemptEndedOtherwise(p) ==
    /\ IsHTTP(p)
    /\ Len(trace[p].responses) >= 1
    /\ ~CredentialInvalid(p, 1)

\* C12: a first attempt that ends in a transport failure, a bad status, a
\* failed read, a body that does not parse or an errcode that is neither 0 nor
\* credential-invalid is the end of the call: no refresh handler is called, no
\* second request is sent, and that error is what the call returns; a call
\* that did call the refresh handler had a credential-invalid first response.
C12_NoRefreshOnOtherErrors ==
    \A p \in Procs :
       /\ FirstAttemptEndedOtherwise(p) =>
             LET o == trace[p].responses[1] IN
             /\ Done(p)
             /\ trace[p].notices = 0
             /\ ~trace[p].forced.returned
             /\ Len(trace[p].reqs) = 1
             /\ Len(trace[p].responses) = 1
             /\ trace[p].issuer = trace[p].gat.issuer
             /\ IsTransportFailure(o) => ret[p].err = Error("http", NilBytes)
             /\ IsResponse(o) =>
                   /\ o.StatusCode # 200 => ret[p].err = Error("Status", NilBytes)
                   /\ o.StatusCode = 200 /\ ~o.readable => ret[p].err = Error("ReadAll", NilBytes)
                   /\ o.StatusCode = 200 /\ o.readable /\ ~o.Body.wellformed =>
                         ret[p].err = Error("Unmarshal", NilBytes)
                   /\ o.StatusCode = 200 /\ o.readable /\ o.Body.wellformed
                         /\ EnvelopeCode(o.Body) # 0 =>
                            ret[p].err = Error("errors.New", o.Body)
       /\ IsHTTP(p) /\ (trace[p].notices > 0 \/ Len(trace[p].reqs) > 1) =>
             CredentialInvalid(p, 1)

\* A call got errcode 99999 on its first attempt and returned that error
\* after one request, without a refresh.
C12_Witness ==
    \E p \in Procs :
       /\ FirstAttemptEndedOtherwise(p)
       /\ Done(p)
       /\ IsResponse(trace[p].responses[1])
       /\ trace[p].responses[1].StatusCode = 200
       /\ EnvelopeCode(trace[p].responses[1].Body) = 99999
       /\ ret[p].err = Error("errors.New", trace[p].responses[1].Body)
       /\ trace[p].notices = 0
       /\ Len(trace[p].reqs) = 1

-----------------------------------------------------------------------------
(* C13 *)

\* C13: every call that has begun returns in the end, and a lock that is held
\* is released in the end, also when a peer never answers a request.
C13_EveryCallReturns ==
    /\ \A p \in Procs : (pc[p] \notin {"idle", "done"}) ~> (pc[p] = "done")
    /\ (lock # 0) ~> (lock = 0)

-----------------------------------------------------------------------------
(* C14 *)

\* C14: the second request of an HTTPPost call carries the body the first
\* one carried, which is the payload the caller passed.
C14_RetrySameBody ==
    \A p \in Procs :
       call[p].op = "HTTPPost" /\ Len(trace[p].reqs) = 2 =>
          /\ trace[p].reqs[1].body = call[p].payload
          /\ trace[p].reqs[2].body = trace[p].reqs[1].body

-----------------------------------------------------------------------------
(* C15 *)

\* The token lookup that follows the forced refresh of the call has returned.
LookupAfterRefreshReturned(p) ==
    /\ IsHTTP(p)
    /\ ForcedRefreshSucceeded(p)
    /\ trace[p].gat.returned

\* C15: the token lookup after the forced refresh gives the token that
\* refresh returned, without another issuer invocation, and that token is the
\* one the retried request carries as the last access_token parameter.
C15_RetryUsesOwnRefreshedToken ==
    \A p \in Procs :
       LookupAfterRefreshReturned(p) =>
          /\ trace[p].gat.issuer = 0
          /\ trace[p].gat.err = NilErr
          /\ trace[p].gat.accessToken = trace[p].forced.accessToken
          /\ Len(trace[p].reqs) = 2
          /\ LET params == AccessTokenParams(trace[p].reqs[2].uri) IN
             params[Len(params)] = trace[p].forced.accessToken

-----------------------------------------------------------------------------
(* C16 *)

\* The goroutine is inside refreshAccessTokenFromWXServer, its request sent.
IssuerCallInFlight(p) == pc[p] \in {"gat_issuer", "nr_issuer"}

\* C16: at most one goroutine is inside refreshAccessTokenFromWXServer,
\* whatever the identities of the calls, and it is the holder of the lock.
C16_OneIssuerCallInFlight ==
    /\ Cardinality({ p \in Procs : IssuerCallInFlight(p) }) <= 1
    /\ \A p \in Procs : IssuerCallInFlight(p) => lock = p

\* An issuer call for one identity is in flight while a caller for the other
\* identity, whose cache entry is empty, waits for the lock.
C16_Witness ==
    \E p, q \in Procs :
       /\ IssuerCallInFlight(p)
       /\ pc[q] \in {"gat_lock", "nr_lock"}
       /\ call[p].appid # call[q].appid
       /\ cache[call[q].appid] = NoEntry

-----------------------------------------------------------------------------
(* C17 *)

\* The first Fetch of the invocation gave a value.
FastPathHit(tr) == Len(tr.gat.fetched) >= 1 /\ tr.gat.fetched[1] # ""

\* C17: the first Fetch of GetAccessToken can be made whoever holds the lock;
\* when it gives a value the invocation returns in that same step, with the
\* lock untouched, and has never been at Lock() or beyond.
C17_FastPathNeedsNoLock ==
    /\ [](\A p \in Procs :
            /\ pc[p] = "gat_fetch1" => ENABLED GetAccessToken_Fetch(EnvKinds, p)
            /\ FastPathHit(trace[p]) =>
                  /\ Len(trace[p].gat.fetched) = 1
                  /\ trace[p].gat.returned
                  /\ trace[p].gat.accessToken = trace[p].gat.fetched[1]
                  /\ pc[p] \notin {"gat_fetch1", "gat_lock", "gat_fetch2", "gat_issuer"})
    /\ [][\A p \in Procs :
            pc[p] = "gat_fetch1" /\ FastPathHit(trace'[p]) =>
               /\ lock' = lock
               /\ trace'[p].gat.returned
               /\ pc'[p] \in {"done", "http_wait1", "http_wait2"}]_vars

\* A direct GetAccessToken has returned the cached value from its first Fetch
\* while another caller holds the lock and waits for the issuer.
C17_Witness ==
    \E p, q \in Procs :
       /\ p # q
       /\ call[p].op = "GetAccessToken"
       /\ Done(p)
       /\ FastPathHit(trace[p])
       /\ ret[p].accessToken = trace[p].gat.fetched[1]
       /\ lock = q
       /\ IssuerCallInFlight(q)
       /\ call[q].appid = call[p].appid

-----------------------------------------------------------------------------
(* C18 *)

\* The step in which the issuer invocation of goroutine p comes back without
\* a token: the request failed or the answer carried none.
RefreshFails(p) ==
    /\ RefreshReturns(p)
    /\ trace'[p].refresh.accessToken = ""

\* C18: the step in which the issuer invocation of GetAccessToken or
\* NoticeRefreshAccessToken fails makes no save: every cache entry, value and
\* TTL, is what it was, the function returns an error, the lock is free, and
\* a Fetch made afterwards gives the value that was cached before.
C18_FailedRefreshSavesNothing ==
    [][\A p \in Procs :
          RefreshFails(p) =>
             /\ cache' = cache
             /\ ~trace'[p].refresh.saved
             /\ trace'[p].refresh.err # NilErr
             /\ lock' = 0
             /\ FetchOutcomes(EnvHealthy, cache', call[p].appid) =
                   { [value |-> cache[call[p].appid].value, err |-> NilErr] }]_vars

\* A NoticeRefreshAccessToken has returned the issuer's failure and the cache
\* still holds, with its TTL, the token an earlier call had saved.
C18_Witness ==
    \E p \in Procs :
       /\ call[p].op = "NoticeRefreshAccessToken"
       /\ Done(p)
       /\ ret[p].err # NilErr
       /\ trace[p].refresh.returned
       /\ trace[p].refresh.err # NilErr
       /\ cache[call[p].appid] = [value |-> "T1", ttl |-> 6480]

-----------------------------------------------------------------------------
(* C19 *)

\* Every access_token parameter in the sequence has a value.
NoEmptyToken(params) == \A j \in DOMAIN params : params[j] # ""

\* C19: GetAccessToken and NoticeRefreshAccessToken give a non-empty token
\* whenever they give a nil error; refreshAccessTokenFromWXServer gives either
\* a token and nil or no token and an error; and no request that was sent
\* carries an empty access_token.
C19_NilErrorMeansToken ==
    \A p \in Procs :
       /\ trace[p].gat.returned /\ trace[p].gat.err = NilErr =>
             trace[p].gat.accessToken # ""
       /\ trace[p].forced.returned /\ trace[p].forced.err = NilErr =>
             trace[p].forced.accessToken # ""
       /\ ( /\ call[p].op \in {"GetAccessToken", "NoticeRefreshAccessToken"}
            /\ Done(p)
            /\ ret[p].err = NilErr ) => ret[p].accessToken # ""
       /\ trace[p].refresh.by # "none" /\ trace[p].refresh.returned =>
             (trace[p].refresh.err = NilErr <=> trace[p].refresh.accessToken # "")
       /\ \A i \in DOMAIN trace[p].reqs :
             /\ AccessTokenParams(trace[p].reqs[i].uri) # <<>>
             /\ NoEmptyToken(AccessTokenParams(trace[p].reqs[i].uri))

\* The issuer answered a GetAccessToken with JSON that carries an empty
\* access_token: the call returned the error made of that body, and no token.
C19_Witness ==
    \E p \in Procs :
       /\ call[p].op = "GetAccessToken"
       /\ Done(p)
       /\ trace[p].refresh.by = "GetAccessToken"
       /\ trace[p].refresh.returned
       /\ trace[p].refresh.err =
             Error("fmt.Errorf", [wellformed |-> TRUE, access_token |-> "", expires_in |-> 7200])
       /\ ret[p].accessToken = ""
       /\ ret[p].err = trace[p].refresh.err

-----------------------------------------------------------------------------
(* C20: a Cache.Save that fails *)

\* The latest refresh of the call saved its token and Cache.Save gave an error.
SaveFailed(tr) == Saved(tr) /\ tr.refresh.saveErr # NilErr

\* What the function that made the latest refresh returned to its caller.
RefreshResult(tr) ==
    IF tr.refresh.by = "GetAccessToken"
    THEN [accessToken |-> tr.gat.accessToken, err |-> tr.gat.err]
    ELSE [accessToken |-> tr.forced.accessToken, err |-> tr.forced.err]

\* The error of Cache.Save is not reported: the function returns the token the
\* issuer just gave, with a nil error.
SaveFailureNotReported(p) ==
    RefreshReturns(p) /\ SaveFailed(trace'[p])
       => /\ RefreshResult(trace'[p]).accessToken = trace'[p].refresh.accessToken
          /\ RefreshResult(trace'[p]).accessToken # ""
          /\ RefreshResult(trace'[p]).err = NilErr

\* The latest Cache.Save of the call returned an error.
LatestSaveFailed(tr) == tr.save.made /\ tr.save.err # NilErr

\* p is in a GetAccessToken for the identity that follows a failed save with
\* no other save in between: one later in the same call (applyAccessToken on
\* line 68 or 107), or one of the goroutine's following call before that call
\* has saved anything.
AfterSaveFailed(p) ==
    \/ LatestSaveFailed(trace[p])
    \/ /\ ~trace[p].save.made
       /\ trace[p].earlier.saveFailed
       /\ trace[p].earlier.appid = call[p].appid

\* A Fetch of that GetAccessToken.
FetchAfterSaveFailed(p) ==
    /\ pc[p] \in {"gat_fetch1", "gat_fetch2"}
    /\ pc'[p] # pc[p]
    /\ AfterSaveFailed(p)

\* GetAccessToken goes on towards the issuer: to the lock, or from the second
\* Fetch to refreshAccessTokenFromWXServer.
GoesOnToIssuer(p) ==
    \/ pc[p] = "gat_fetch1" /\ pc'[p] = "gat_lock"
    \/ pc[p] = "gat_fetch2" /\ pc'[p] = "gat_issuer" /\ trace'[p].issuer = trace[p].issuer + 1

\* The value the Fetch of this step gave.
Fetched(p) == trace'[p].gat.fetched[Len(trace'[p].gat.fetched)]

\* GetAccessToken returns the value the cache holds, without the issuer.
ReturnsCachedValue(p) ==
    /\ Fetched(p) = cache[call[p].appid].value
    /\ trace'[p].gat.returned
    /\ trace'[p].gat.accessToken = Fetched(p)
    /\ trace'[p].gat.err = NilErr
    /\ trace'[p].issuer = trace[p].issuer
    /\ issued' = issued

\* C20 as stated: a failure of Cache.Save in GetAccessToken or
\* NoticeRefreshAccessToken is not reported, the call returns the freshly
\* issued token with a nil error, the cache then holds no value for the
\* identity, and the next GetAccessToken for it invokes the issuer again.
C20_SaveFailureLeavesNoValue ==
    [][\A p \in Procs :
          /\ SaveFailureNotReported(p)
          /\ RefreshReturns(p) /\ SaveFailed(trace'[p])
                => cache'[call[p].appid].value = ""
          /\ FetchAfterSaveFailed(p) => GoesOnToIssuer(p)]_vars

\* C20 amended: a failure of Cache.Save is not reported and the call returns
\* the freshly issued token with a nil error; the cache need not be empty
\* afterwards. The next GetAccessToken for the identity invokes the issuer
\* again when its Fetches find no value, and returns the value a Fetch finds
\* (an older token, say) without invoking the issuer.
C20_SaveFailureNotReported ==
    [][\A p \in Procs :
          /\ SaveFailureNotReported(p)
          /\ FetchAfterSaveFailed(p) =>
                IF Fetched(p) = "" THEN GoesOnToIssuer(p) ELSE ReturnsCachedValue(p)]_vars

\* A forced refresh got T2 after T1 was cached and its Cache.Save failed, yet
\* the call returned; the goroutine's following GetAccessToken for the same
\* identity returned the older token from the cache, the issuer not invoked.
C20_Witness ==
    \E p \in Procs :
       /\ pc[p] = "done"
       /\ call[p].op = "GetAccessToken"
       /\ trace[p].earlier.saveFailed
       /\ trace[p].earlier.appid = call[p].appid
       /\ ret[p].returned
       /\ trace[p].gat.accessToken # ""
       /\ trace[p].gat.accessToken # trace[p].earlier.accessToken
       /\ trace[p].gat.err = NilErr
       /\ trace[p].issuer = 0

====
